---- MODULE Spec2Model ----
(***************************************************************************)
(* Model of kvazar's per-guild playback engine (internal/bot/player.go):   *)
(* one Player instance, its command methods, its playback goroutine        *)
(* (playLoop / nextTrack / streamTrack) and its idle-disconnect timer.     *)
(*                                                                         *)
(* Every method that holds p.mu from entry to exit is one atomic action    *)
(* guarded by mu = "free".  Pause is the one method that can block while   *)
(* holding the lock (a channel send), so it is split at that send.  The    *)
(* playback goroutine is split at every lock acquisition and at every      *)
(* blocking point of streamTrack.                                          *)
(*                                                                         *)
(* Player.skipRequested is written by Skip, Stop and nextTrack and read    *)
(* nowhere in player.go, so it is not part of the state.                   *)
(***************************************************************************)
EXTENDS Naturals, Sequences, FiniteSets

\* ---- bounds -----------------------------------------------------------
MaxTracks == 2
MaxInstances == 4
MaxFrames == 2
MaxJoins == 3

\* ---- program constants ------------------------------------------------
PauseChanCap == 1

None == 0
Tracks == 1..MaxTracks
Channels == {"c1"}
VoiceChannels == {"c1", "c2"}
Callers == {1, 2}
Guilds == {"g1", "g2"}
Guild == "g1"
Self == 1

VARIABLES
  queue,            \* p.queue: sequence of tracks waiting
  current,          \* p.current: a track or None
  loop,             \* p.loop
  playing,          \* p.playing
  paused,           \* p.paused
  cancelPlayback,   \* p.cancelPlayback # nil
  pauseChan,        \* p.pauseChan # nil
  pauseBuf,         \* content of the buffered channel p.pauseChan
  voice,            \* p.voice: "nil" or the channel it is bound to
  disconnectTimer,  \* p.disconnectTimer: "nil", or the timer it points to: "armed" / "fired"
  mu,               \* p.mu: "free" or the method holding it across steps
  pc,               \* position of the playback goroutine
  ctxDone,          \* the context of the latest pipeline invocation is cancelled
  isPaused,         \* streamTrack's local isPaused
  err,              \* result of the last streamTrack call
  ffmpeg,           \* number of decode subprocesses alive
  tasks,            \* number of playLoop goroutines alive
  speaking,         \* speaking state set on the transport
  framePos,         \* frames the running invocation has read from its subprocess (while plain, up to MaxFrames)
  delivered,        \* the source frames it has delivered to the transport, in delivery order (while plain)
  cbPending,        \* timer callbacks started by the runtime, not yet run
  orphanTimers,     \* armed timers p.disconnectTimer no longer points to
  players,          \* k.players: guild -> Player instance or None; this player is Self, of Guild
  created,          \* Player instances constructed so far
  lastGot,          \* per guild, what getPlayer last returned since the guild's last release
  lastFound,        \* per guild, what findPlayer last returned
  peer,             \* the fields of the other guild's Player
  ecPc,             \* position of an EnsureConnected call
  ecCh,             \* the channel that call asks for
  ready,            \* play requests past EnsureConnected, resolving
  enqueued,         \* number of Enqueue calls so far (the last track id)
  last,             \* the last command call and what it returned
  became,           \* tracks in the order they became current (while plain)
  plain,            \* no Skip, Stop or ToggleLoop call has happened
  pauseRets,        \* results of the last (up to three) consecutive Pause calls on an active player
  pauseBase,        \* p.paused before the first call of pauseRets
  ahead,            \* tracks waiting in the queue when the last Enqueue was called
  skipped,          \* a Skip invoked the cancel handle of the current track's pipeline
  voiceConn,        \* p.voice as a connection: the connection it points to, None for nil
  conns,            \* the voice connections established so far: channel, and live until Disconnect
  calls             \* per caller, an EnsureConnected call: position, channelID, and its locals vc and conn

vars == << queue, current, loop, playing, paused, cancelPlayback, pauseChan,
           pauseBuf, voice, disconnectTimer, mu, pc, ctxDone, isPaused, err,
           ffmpeg, tasks, speaking, framePos, delivered, cbPending, orphanTimers, players, created,
           lastGot, lastFound, peer, ecPc, ecCh, ready, enqueued, last, became, plain, pauseRets, pauseBase, ahead, skipped,
           voiceConn, conns, calls >>

playerVars == << queue, current, loop, playing, paused, cancelPlayback,
                 pauseChan, pauseBuf, voice, disconnectTimer, mu >>
frameVars  == << framePos, delivered >>
taskVars   == << pc, ctxDone, isPaused, err, ffmpeg, tasks, speaking, frameVars >>
regVars    == << players, created, lastGot, lastFound, peer >>
connVars   == << voiceConn, conns, calls >>
timerVars  == << cbPending, orphanTimers, regVars, connVars >>
reqVars    == << ecPc, ecCh, ready, enqueued >>
histVars   == << last, became, plain, pauseRets, pauseBase, ahead, skipped >>

StreamPcs == {"s_voice", "s_start", "s_check", "s_pause", "s_select", "s_read", "s_send"}
LoopPcs   == {"s_check", "s_pause", "s_select", "s_read", "s_send"}

\* A command call: its name, the boolean it returned (val), the position an
\* Enqueue returned (pos), and what the call met: for Enqueue, whether a track
\* was current (aux), how many tracks waited (ahead) and the new track (cur);
\* for Skip, whether it invoked a cancel (aux) and the track that was current
\* (cur); for Pause, p.paused before the call (aux).
Call(op, val, pos, aux, cur) ==
  [op |-> op, val |-> val, pos |-> pos, aux |-> aux, cur |-> cur]

\* No EnsureConnected call of a caller yet.
NoCall == [pc |-> "none", ch |-> "nil", vc |-> None, conn |-> None]

\* NewPlayer: every field at its zero value.
NewPlayer ==
  [queue |-> << >>, current |-> None, loop |-> FALSE, playing |-> FALSE,
   paused |-> FALSE, voice |-> "nil", disconnectTimer |-> "nil"]

Init ==
  /\ queue = << >> /\ current = None /\ loop = FALSE /\ playing = FALSE
  /\ paused = FALSE /\ cancelPlayback = FALSE /\ pauseChan = FALSE
  /\ pauseBuf = << >> /\ voice = "nil" /\ disconnectTimer = "nil"
  /\ mu = "free"
  /\ pc = "none" /\ ctxDone = FALSE /\ isPaused = FALSE /\ err = "none"
  /\ ffmpeg = 0 /\ tasks = 0 /\ speaking = FALSE
  /\ framePos = 0 /\ delivered = << >>
  /\ cbPending = 0 /\ orphanTimers = 0
  /\ players = [g \in Guilds |-> IF g = Guild THEN Self ELSE Self + 1]
  /\ created = Self + 1
  /\ lastGot = [g \in Guilds |-> None] /\ lastFound = [g \in Guilds |-> None]
  /\ peer = NewPlayer
  /\ ecPc = "none" /\ ecCh = "nil" /\ ready = 0 /\ enqueued = 0
  /\ last = Call("none", FALSE, 0, FALSE, None)
  /\ became = << >> /\ plain = TRUE /\ pauseRets = << >> /\ pauseBase = FALSE /\ ahead = 0
  /\ skipped = FALSE
  /\ voiceConn = None /\ conns = << >>
  /\ calls = [c \in Callers |-> NoCall]

\* ---- idle-disconnect timer helpers ------------------------------------

\* (mutant of CancelDisconnectTimerLocked: the timer is left as it is)
CancelForgotten(dt) == dt

\* cancelDisconnectTimerLocked: Stop() and forget the timer, if there is one.
\* Stop() keeps an armed timer from firing; it does not recall a callback the
\* runtime has already started.
CancelDisconnectTimerLocked(dt) == IF dt # "nil" THEN "nil" ELSE dt

\* scheduleDisconnectLocked: Stop() the old timer, if any, and arm a new one.
ScheduleDisconnectLocked(dt) == "armed"

\* ---- play request: EnsureConnected, Resolve, Enqueue ------------------

\* Requests still allowed to start, so that at most MaxTracks tracks exist.
Budget == MaxTracks - enqueued - ready - (IF ecPc = "none" THEN 0 ELSE 1)

\* EnsureConnected, lines 58-64: read p.voice under the lock; already bound
\* to the channel: return nil.
EnsureConnectedRead(ch) ==
  /\ ecPc = "none" /\ mu = "free" /\ Budget > 0
  /\ IF voice = ch
       THEN /\ ready' = ready + 1
            /\ UNCHANGED << ecPc, ecCh >>
       ELSE /\ ecPc' = "join" /\ ecCh' = ch
            /\ UNCHANGED ready
  /\ UNCHANGED << playerVars, taskVars, timerVars, enqueued, histVars >>

\* EnsureConnected, lines 66-73: disconnect the old connection, join; a failed
\* join returns the error and fulfilPlay gives up.
EnsureConnectedJoin ==
  /\ ecPc = "join"
  /\ \/ ecPc' = "set" /\ UNCHANGED ecCh
     \/ ecPc' = "none" /\ ecCh' = "nil"
  /\ UNCHANGED << playerVars, taskVars, timerVars, ready, enqueued, histVars >>

\* EnsureConnected, lines 75-79: store the new connection under the lock.
EnsureConnectedSet ==
  /\ ecPc = "set" /\ mu = "free"
  /\ voice' = ecCh
  /\ ecPc' = "none" /\ ecCh' = "nil"
  /\ ready' = ready + 1
  /\ UNCHANGED << queue, current, loop, playing, paused, cancelPlayback,
                  pauseChan, pauseBuf, disconnectTimer, mu >>
  /\ UNCHANGED << taskVars, timerVars, enqueued, histVars >>

\* (mutant of ResolveFail: the request is enqueued although Resolve failed)
ResolveFailEnqueues ==
  /\ ready > 0
  /\ ready' = ready - 1
  /\ queue' = Append(queue, enqueued + 1)
  /\ enqueued' = enqueued + 1
  /\ UNCHANGED << current, loop, playing, paused, cancelPlayback, pauseChan,
                  pauseBuf, voice, disconnectTimer, mu, taskVars, timerVars,
                  ecPc, ecCh, histVars >>

\* fulfilPlay lines 193-200: Resolve failed or timed out; the request ends
\* without calling Enqueue.
ResolveFail ==
  /\ ready > 0
  /\ ready' = ready - 1
  /\ UNCHANGED << playerVars, taskVars, timerVars, ecPc, ecCh, enqueued, histVars >>

\* (mutant of Appended: the new track is put at the head)
Prepended(q, track) == << track >> \o q

\* Enqueue, line 87.
Appended(q, track) == Append(q, track)

\* (mutant of EnqueuePosition: one more than the length of the queue)
EnqueuePositionCountingCurrent(q) == Len(q) + 1

\* Enqueue, line 88: the position it returns, given the queue after the append.
EnqueuePosition(q) == Len(q)

\* (mutant of StartsTask: a playback goroutine is started by every Enqueue)
StartsTaskAlways(pl) == TRUE

\* Enqueue, line 91.
StartsTask(pl) == ~pl

\* Enqueue(track): the track is the next fresh one (Resolve builds a new Track
\* for every request).
Enqueue ==
  /\ ready > 0 /\ mu = "free"
  /\ LET track == enqueued + 1
         q == Appended(queue, track)
     IN /\ queue' = q
        /\ last' = Call("Enqueue", FALSE, EnqueuePosition(q), current # None, track)
        /\ ahead' = Len(queue)
        /\ enqueued' = track
  /\ ready' = ready - 1
  /\ disconnectTimer' = CancelDisconnectTimerLocked(disconnectTimer)
  /\ IF StartsTask(playing)
       THEN playing' = TRUE /\ pc' = "next" /\ tasks' = tasks + 1
       ELSE UNCHANGED << playing, pc, tasks >>
  /\ pauseRets' = << >>
  /\ UNCHANGED << current, loop, paused, cancelPlayback, pauseChan, pauseBuf,
                  voice, mu, ctxDone, isPaused, err, ffmpeg, speaking,
                  timerVars, ecPc, ecCh, became, plain, pauseBase >>
  /\ UNCHANGED skipped
  /\ UNCHANGED frameVars

\* ---- control commands -------------------------------------------------

\* Skip: cancels only through p.cancelPlayback; reports p.current != nil.
Skip ==
  /\ mu = "free"
  /\ IF cancelPlayback
       THEN loop' = FALSE /\ ctxDone' = TRUE
       ELSE UNCHANGED << loop, ctxDone >>
  /\ last' = Call("Skip", current # None, 0, cancelPlayback, current)
  /\ skipped' = (skipped \/ (cancelPlayback /\ current # None /\ pc \in StreamPcs))
  /\ plain' = FALSE /\ pauseRets' = << >>
  /\ UNCHANGED << queue, current, playing, paused, cancelPlayback, pauseChan,
                  pauseBuf, voice, disconnectTimer, mu, pc, isPaused, err,
                  ffmpeg, speaking, timerVars, reqVars, became, pauseBase, ahead >>
  /\ UNCHANGED tasks
  /\ framePos' = 0 /\ delivered' = << >>

\* (mutant of Inactive: Pause acts with nothing playing)
NeverInactive(pl, cur) == FALSE

\* Pause, line 118.
Inactive(pl, cur) == ~pl \/ cur = None

\* (mutant of Flipped: Pause only ever pauses)
Raised(b) == TRUE

\* Pause, line 122.
Flipped(b) == ~b

\* What a Pause call on an active player records when it returns.
PauseReturn(ret, before) ==
  /\ last' = Call("Pause", ret, 0, before, None)
  /\ IF pauseRets = << >>
       THEN pauseRets' = << ret >> /\ pauseBase' = before
       ELSE /\ pauseRets' = IF Len(pauseRets) < 3
                              THEN Append(pauseRets, ret)
                              ELSE Append(Tail(pauseRets), ret)
            /\ pauseBase' = IF Len(pauseRets) < 3
                              THEN pauseBase ELSE Head(pauseRets)

\* Pause, lines 115-127.  With nothing playing it returns false.  Otherwise it
\* flips p.paused and sends the new value on p.pauseChan while holding p.mu:
\* with room in the channel the call returns at once, with the channel full
\* the call stays in the send, holding the lock.
Pause ==
  /\ mu = "free"
  /\ IF Inactive(playing, current)
       THEN /\ last' = Call("Pause", FALSE, 0, FALSE, None)
            /\ pauseRets' = << >>
            /\ UNCHANGED << paused, pauseBuf, mu, pauseBase >>
       ELSE /\ paused' = Flipped(paused)
            /\ IF ~pauseChan
                 THEN /\ PauseReturn(paused', paused)
                      /\ UNCHANGED << pauseBuf, mu >>
                 ELSE IF Len(pauseBuf) < PauseChanCap
                   THEN /\ pauseBuf' = Append(pauseBuf, paused')
                        /\ PauseReturn(paused', paused)
                        /\ UNCHANGED mu
                   ELSE /\ mu' = "Pause"
                        /\ last' = Call("Pause-blocked", FALSE, 0, paused, None)
                        /\ UNCHANGED << pauseBuf, pauseRets, pauseBase >>
  /\ UNCHANGED << queue, current, loop, playing, cancelPlayback, pauseChan,
                  voice, disconnectTimer, taskVars, timerVars, reqVars,
                  became, plain, ahead >>
  /\ UNCHANGED skipped

\* Pause, lines 124-126: the blocked send goes through once the pipeline has
\* taken a value out of the channel; the call then returns p.paused.
PauseSend ==
  /\ mu = "Pause" /\ Len(pauseBuf) < PauseChanCap
  /\ pauseBuf' = Append(pauseBuf, paused)
  /\ mu' = "free"
  /\ PauseReturn(paused, last.aux)
  /\ UNCHANGED << queue, current, loop, playing, paused, cancelPlayback,
                  pauseChan, voice, disconnectTimer, taskVars, timerVars,
                  reqVars, became, plain, ahead >>
  /\ UNCHANGED skipped

\* (mutant of HadContent: the queue is not looked at)
HadCurrent(cur, q) == cur # None

\* Stop, line 133.
HadContent(cur, q) == cur # None \/ Len(q) > 0

\* Stop, lines 130-144.
Stop ==
  /\ mu = "free"
  /\ last' = Call("Stop", HadContent(current, queue), 0, FALSE, None)
  /\ queue' = << >> /\ current' = None /\ loop' = FALSE /\ paused' = FALSE
  /\ IF cancelPlayback THEN ctxDone' = TRUE ELSE UNCHANGED ctxDone
  /\ plain' = FALSE /\ pauseRets' = << >>
  /\ UNCHANGED << playing, cancelPlayback, pauseChan, pauseBuf, voice,
                  disconnectTimer, mu, pc, isPaused, err, ffmpeg, speaking,
                  timerVars, reqVars, became, pauseBase, ahead >>
  /\ UNCHANGED tasks
  /\ skipped' = FALSE
  /\ framePos' = 0 /\ delivered' = << >>

\* ToggleLoop(explicit): explicit is "nil", "true" or "false".
\* (mutant of LoopAfter: the current track is not looked at)
LoopAfterAnyway(explicit, cur, lp) ==
  IF explicit # "nil" THEN explicit = "true" ELSE ~lp

\* ToggleLoop, lines 151-155: explicit is "nil" or the pointed-to value.
LoopAfter(explicit, cur, lp) ==
  IF explicit # "nil" THEN (explicit = "true" /\ cur # None)
  ELSE IF cur # None THEN ~lp ELSE lp

\* ToggleLoop, lines 147-157.
ToggleLoop(explicit) ==
  /\ mu = "free"
  /\ loop' = LoopAfter(explicit, current, loop)
  /\ last' = Call("ToggleLoop", loop', 0, FALSE, None)
  /\ plain' = FALSE /\ pauseRets' = << >>
  /\ framePos' = 0 /\ delivered' = << >>
  /\ UNCHANGED << queue, current, playing, paused, cancelPlayback, pauseChan,
                  pauseBuf, voice, disconnectTimer, mu, pc, ctxDone, isPaused,
                  err, ffmpeg, tasks, speaking, timerVars, reqVars, became,
                  pauseBase, ahead >>
  /\ UNCHANGED skipped

\* Shutdown, lines 160-172.
\* (mutant of LoopKept: Shutdown switches looping off)
LoopDropped(lp) == FALSE

\* Shutdown, lines 160-172: no statement assigns p.loop.
LoopKept(lp) == lp

Shutdown ==
  /\ mu = "free"
  /\ IF cancelPlayback THEN ctxDone' = TRUE ELSE UNCHANGED ctxDone
  /\ voice' = "nil"
  /\ loop' = LoopKept(loop)
  /\ last' = Call("Shutdown", FALSE, 0, FALSE, None)
  /\ pauseRets' = << >>
  /\ UNCHANGED << queue, current, playing, paused, cancelPlayback,
                  pauseChan, pauseBuf, disconnectTimer, mu, pc, isPaused, err,
                  ffmpeg, speaking, timerVars, reqVars, became, plain, pauseBase, ahead >>
  /\ UNCHANGED tasks
  /\ UNCHANGED skipped
  /\ UNCHANGED frameVars

\* ---- playback goroutine: playLoop, nextTrack --------------------------

\* (mutant of Requeued: the current track is appended twice)
RequeuedTwice(q, cur, lp) == IF lp /\ cur # None THEN Append(Append(q, cur), cur) ELSE q

\* nextTrack, lines 220-223: the queue after loop handling.
Requeued(q, cur, lp) == IF lp /\ cur # None THEN Append(q, cur) ELSE q

\* nextTrack, lines 225-233: the track it makes current, None for an empty queue.
Dequeued(q) == IF q = << >> THEN None ELSE Head(q)

\* (mutant of Remaining: the dequeued track also stays at the head)
RemainingWithHead(q) == q

\* nextTrack, line 231: what stays in the queue.
Remaining(q) == IF q = << >> THEN q ELSE Tail(q)

\* playLoop line 176: nextTrack under the lock.
NextTrack ==
  /\ pc = "next" /\ mu = "free"
  /\ LET q == Requeued(queue, current, loop)
         track == Dequeued(q)
     IN /\ current' = track
        /\ queue' = Remaining(q)
        /\ pc' = IF track = None THEN "idle" ELSE "install"
        /\ became' = IF plain /\ track # None THEN Append(became, track) ELSE became
        /\ skipped' = FALSE
  /\ UNCHANGED << loop, playing, paused, cancelPlayback, pauseChan, pauseBuf,
                  voice, disconnectTimer, mu, ctxDone, isPaused, err, ffmpeg,
                  speaking, timerVars, reqVars, last, plain, pauseRets, pauseBase, ahead >>
  /\ UNCHANGED tasks
  /\ UNCHANGED frameVars

\* playLoop lines 177-183: nothing to play, the goroutine ends.
GoIdle ==
  /\ pc = "idle" /\ mu = "free"
  /\ playing' = FALSE /\ paused' = FALSE
  /\ disconnectTimer' = ScheduleDisconnectLocked(disconnectTimer)
  /\ pc' = "none" /\ tasks' = tasks - 1
  /\ UNCHANGED << queue, current, loop, cancelPlayback, pauseChan, pauseBuf,
                  voice, mu, ctxDone, isPaused, err, ffmpeg, speaking,
                  timerVars, reqVars, histVars >>
  /\ UNCHANGED frameVars

\* (mutant of FreshContext: the context of the previous invocation is kept)
ReusedContext(done) == done

\* playLoop line 190: context.WithCancel(context.Background()) makes a new
\* context, not done, whatever became of the previous one.
FreshContext(done) == FALSE

\* playLoop lines 186-194: a fresh context, its cancel and a fresh pause
\* channel are installed under the lock.
InstallCancel ==
  /\ pc = "install" /\ mu = "free"
  /\ cancelPlayback' = TRUE /\ ctxDone' = FreshContext(ctxDone)
  /\ pauseChan' = TRUE /\ pauseBuf' = << >>
  /\ pc' = "s_voice" /\ err' = "none"
  /\ UNCHANGED << queue, current, loop, playing, paused, voice,
                  disconnectTimer, mu, isPaused, ffmpeg, speaking,
                  timerVars, reqVars, histVars >>
  /\ UNCHANGED tasks
  /\ UNCHANGED frameVars

\* playLoop lines 198-211: the handle and the channel are cleared; cancelled
\* or not, the loop goes on to nextTrack.
ClearCancel ==
  /\ pc = "clear" /\ mu = "free"
  /\ cancelPlayback' = FALSE
  /\ pauseChan' = FALSE /\ pauseBuf' = << >>
  /\ pc' = "next"
  /\ UNCHANGED << queue, current, loop, playing, paused, voice,
                  disconnectTimer, mu, ctxDone, isPaused, err, ffmpeg,
                  speaking, timerVars, reqVars, histVars >>
  /\ UNCHANGED tasks
  /\ UNCHANGED frameVars

\* ---- frame pipeline: streamTrack --------------------------------------

\* streamTrack returns e to playLoop, leaving n subprocesses alive and the
\* speaking state sp.
Exit(e, n, sp) ==
  /\ err' = e
  /\ ffmpeg' = n /\ speaking' = sp
  /\ framePos' = 0 /\ delivered' = << >>
  /\ isPaused' = FALSE
  /\ pc' = "clear"

\* (mutant of Reaped: the deferred Kill and Wait are missing)
Leaked(n) == n

\* lines 268-271: the deferred Kill and Wait end and reap the subprocess.
Reaped(n) == n - 1

\* A return before the subprocess was started (lines 238-266): no deferred
\* call is registered yet.
EarlyReturn(e) == Exit(e, ffmpeg, speaking)

\* (mutant of Silenced: the deferred Speaking(false) is missing)
StillSpeaking(sp) == sp

\* lines 280-284: the deferred call sets the speaking state back to false.
Silenced(sp) == FALSE

\* A return after the subprocess was started: the deferred calls kill and
\* reap it and clear the speaking state.
Return(e) == Exit(e, Reaped(ffmpeg), Silenced(speaking))

\* lines 237-243: no transport.
StreamVoice ==
  /\ pc = "s_voice" /\ mu = "free"
  /\ IF voice = "nil"
       THEN EarlyReturn("failed")
       ELSE pc' = "s_start" /\ UNCHANGED << err, ffmpeg, speaking, isPaused, frameVars >>
  /\ UNCHANGED << playerVars, ctxDone, timerVars, reqVars, histVars >>
  /\ UNCHANGED tasks

\* lines 245-284: encoder and subprocess start.  Either may fail; exec's
\* Start refuses a context that is already cancelled with the context's error
\* (wrapped with %w, so playLoop sees context.Canceled).  Once Start has
\* succeeded the deferred Kill and Wait are registered (lines 268-271) and
\* nothing returns before the frame loop.
StreamStart ==
  /\ pc = "s_start"
  /\ \/ EarlyReturn("failed")
     \/ ctxDone /\ EarlyReturn("canceled")
     \/ /\ ~ctxDone
        /\ ffmpeg' = ffmpeg + 1 /\ speaking' = TRUE
        /\ pc' = "s_check"
        /\ UNCHANGED << err, isPaused, frameVars >>
  /\ UNCHANGED << playerVars, ctxDone, timerVars, reqVars, histVars >>
  /\ UNCHANGED tasks

\* lines 287-289
StreamCheck ==
  /\ pc = "s_check"
  /\ IF ctxDone
       THEN Return("canceled")
       ELSE pc' = "s_pause" /\ UNCHANGED << err, ffmpeg, speaking, isPaused, frameVars >>
  /\ UNCHANGED << playerVars, ctxDone, timerVars, reqVars, histVars >>
  /\ UNCHANGED tasks

\* (mutant of PauseBranch: the pipeline reads on whatever the flag says)
NeverWaits(p) == "s_read"

\* line 297: a paused pipeline goes to the select, any other to the read.
PauseBranch(p) == IF p THEN "s_select" ELSE "s_read"

\* lines 292-297
StreamPauseCheck ==
  /\ pc = "s_pause" /\ mu = "free"
  /\ isPaused' = paused
  /\ pc' = PauseBranch(paused)
  /\ UNCHANGED << playerVars, ctxDone, err, ffmpeg, speaking, frameVars,
                  timerVars, reqVars, histVars >>
  /\ UNCHANGED tasks

\* After a value v was received from the pause channel (lines 301-305): false
\* restarts the loop; true leaves the select and goes on to the read.
AfterPauseSignal(v) == IF v THEN "s_read" ELSE "s_check"

\* lines 298-308: the select of a paused pipeline.
StreamSelect ==
  /\ pc = "s_select"
  /\ \/ ctxDone /\ Return("canceled") /\ UNCHANGED pauseBuf
     \/ /\ pauseBuf # << >>
        /\ pauseBuf' = Tail(pauseBuf)
        /\ pc' = AfterPauseSignal(Head(pauseBuf))
        /\ UNCHANGED << err, ffmpeg, speaking, isPaused, frameVars >>
     \/ /\ pc' = "s_check"
        /\ UNCHANGED << pauseBuf, err, ffmpeg, speaking, isPaused, frameVars >>
  /\ UNCHANGED << queue, current, loop, playing, paused, cancelPlayback,
                  pauseChan, voice, disconnectTimer, mu, ctxDone, timerVars,
                  reqVars, histVars >>
  /\ UNCHANGED tasks

\* (mutant of NextFrame: the read starts over at the first frame)
Rewound(pos) == 1

\* line 311: io.ReadFull takes the next frame of the subprocess's output.
NextFrame(pos) == pos + 1

\* lines 311-325: one frame read and encoded, or end of stream, or an error.
StreamRead ==
  /\ pc = "s_read"
  /\ \/ /\ pc' = "s_send"
        /\ framePos' = IF plain /\ framePos < MaxFrames
                          THEN NextFrame(framePos) ELSE framePos
        /\ UNCHANGED << err, ffmpeg, speaking, isPaused, delivered >>
     \/ Return("nil")
     \/ Return("failed")
  /\ UNCHANGED << playerVars, ctxDone, timerVars, reqVars, histVars >>
  /\ UNCHANGED tasks

\* lines 327-331: the frame is delivered unless cancellation is seen first.
StreamSend ==
  /\ pc = "s_send"
  /\ \/ ctxDone /\ Return("canceled")
     \/ /\ pc' = "s_check"
        /\ delivered' = IF plain /\ Len(delivered) < MaxFrames
                           THEN Append(delivered, framePos) ELSE delivered
        /\ UNCHANGED << err, ffmpeg, speaking, isPaused, framePos >>
  /\ UNCHANGED << playerVars, ctxDone, timerVars, reqVars, histVars >>
  /\ UNCHANGED tasks

\* ---- registry helpers: bot.go ------------------------------------------

\* (mutant of Released: the entry stays)
Kept(m, g) == m

\* (mutant of Released: the whole map is emptied)
ReleasedAll(m, g) == [h \in DOMAIN m |-> None]

\* releasePlayer line 299: delete(k.players, guildID).
Released(m, g) == [m EXCEPT ![g] = None]

\* (mutant of GetOrCreate: a fresh Player replaces the guild's entry each time)
AlwaysCreate(m, g, fresh) == [m EXCEPT ![g] = fresh]

\* getPlayer lines 282-287: the guild's Player, created and stored when absent.
GetOrCreate(m, g, fresh) == IF m[g] # None THEN m ELSE [m EXCEPT ![g] = fresh]

\* ---- idle-disconnect timer --------------------------------------------

\* The runtime fires the timer p.disconnectTimer points to.
TimerExpire ==
  /\ disconnectTimer = "armed"
  /\ disconnectTimer' = "fired"
  /\ cbPending' = cbPending + 1
  /\ UNCHANGED << queue, current, loop, playing, paused, cancelPlayback,
                  pauseChan, pauseBuf, voice, mu, taskVars, orphanTimers,
                  regVars, reqVars, histVars >>
  /\ UNCHANGED connVars

\* The runtime fires an armed timer the player no longer points to.
OrphanExpire ==
  /\ orphanTimers > 0
  /\ orphanTimers' = orphanTimers - 1
  /\ cbPending' = cbPending + 1
  /\ UNCHANGED << playerVars, taskVars, regVars, reqVars, histVars >>
  /\ UNCHANGED connVars

\* scheduleDisconnectLocked lines 339-351: the callback.
TimerCallback ==
  /\ cbPending > 0 /\ mu = "free"
  /\ voice' = "nil"
  /\ orphanTimers' = IF disconnectTimer = "armed" THEN orphanTimers + 1 ELSE orphanTimers
  /\ disconnectTimer' = "nil"
  /\ players' = Released(players, Guild)
  /\ lastGot' = [lastGot EXCEPT ![Guild] = None]
  /\ cbPending' = cbPending - 1
  /\ UNCHANGED << queue, current, loop, playing, paused, cancelPlayback,
                  pauseChan, pauseBuf, mu, taskVars, created, lastFound, peer,
                  reqVars, histVars >>
  /\ UNCHANGED connVars

\* ---- the registry on its own: bot.go getPlayer, findPlayer, releasePlayer

\* getPlayer lines 279-288, under playersMu.
GetPlayer(g) ==
  /\ players[g] = None => created < MaxInstances
  /\ players' = GetOrCreate(players, g, created + 1)
  /\ created' = IF players[g] = None THEN created + 1 ELSE created
  /\ lastGot' = [lastGot EXCEPT ![g] = players'[g]]
  /\ UNCHANGED << playerVars, taskVars, cbPending, orphanTimers, lastFound,
                  peer, reqVars, histVars >>
  /\ UNCHANGED connVars

\* findPlayer lines 290-294: a read under the read lock.
FindPlayer(g) ==
  /\ lastFound' = [lastFound EXCEPT ![g] = players[g]]
  /\ UNCHANGED << playerVars, taskVars, cbPending, orphanTimers, players,
                  created, lastGot, peer, reqVars, histVars >>
  /\ UNCHANGED connVars

\* releasePlayer lines 296-300, under playersMu.
ReleasePlayer(g) ==
  /\ players' = Released(players, g)
  /\ lastGot' = [lastGot EXCEPT ![g] = None]
  /\ UNCHANGED << playerVars, taskVars, cbPending, orphanTimers, created,
                  lastFound, peer, reqVars, histVars >>
  /\ UNCHANGED connVars

\* ---- specification ----------------------------------------------------

Next ==
  \/ \E ch \in Channels : EnsureConnectedRead(ch)
  \/ EnsureConnectedJoin
  \/ EnsureConnectedSet
  \/ ResolveFail
  \/ Enqueue
  \/ Skip
  \/ Pause
  \/ PauseSend
  \/ Stop
  \/ \E explicit \in {"nil", "true", "false"} : ToggleLoop(explicit)
  \/ Shutdown
  \/ NextTrack
  \/ GoIdle
  \/ InstallCancel
  \/ ClearCancel
  \/ StreamVoice
  \/ StreamStart
  \/ StreamCheck
  \/ StreamPauseCheck
  \/ StreamSelect
  \/ StreamRead
  \/ StreamSend
  \/ TimerExpire
  \/ OrphanExpire
  \/ TimerCallback

Spec == Init /\ [][Next]_vars

\* A step of the playback goroutine (playLoop and the streamTrack it calls).
TaskStep ==
  \/ NextTrack \/ GoIdle \/ InstallCancel \/ ClearCancel
  \/ StreamVoice \/ StreamStart \/ StreamCheck \/ StreamPauseCheck
  \/ StreamSelect \/ StreamRead \/ StreamSend

\* The Go scheduler runs a goroutine that stays runnable: the playback task
\* keeps taking steps while it can.
FairSpec == Spec /\ WF_vars(TaskStep)

\* The player together with later commands of its guild, which go through
\* getPlayer and construct a replacement Player once this one was released.
ReuseNext ==
  \/ Next
  \/ GetPlayer(Guild)

ReuseSpec == Init /\ [][ReuseNext]_vars

\* The registry alone, under concurrent commands of both guilds.
RegistryNext ==
  \/ \E g \in Guilds : GetPlayer(g)
  \/ \E g \in Guilds : FindPlayer(g)
  \/ \E g \in Guilds : ReleasePlayer(g)

RegistrySpec == Init /\ [][RegistryNext]_vars

\* ---- EnsureConnected on its own: concurrent calls, two channels ----------

\* The rest of the player and the registry stay as they are.
ConnectFrame ==
  UNCHANGED << playerVars, taskVars, cbPending, orphanTimers, regVars,
               reqVars, histVars >>

\* A call has returned (or was never made).
Returned(c) == calls[c].pc \in {"none", "ok", "failed"}

\* vc.Disconnect(): the connection is released.
Disconnected(cs, id) == [cs EXCEPT ![id].live = FALSE]

\* A play request of caller c calls EnsureConnected(ch).
ConnectCall(c, ch) ==
  /\ Returned(c)
  /\ calls' = [calls EXCEPT ![c] = [NoCall EXCEPT !.pc = "read", !.ch = ch]]
  /\ UNCHANGED << voiceConn, conns >>
  /\ ConnectFrame

\* lines 57-63: vc := p.voice under the lock; return nil when vc is bound to
\* the channel asked for.
ConnectRead(c) ==
  /\ calls[c].pc = "read"
  /\ LET vc == voiceConn
     IN calls' = [calls EXCEPT
          ![c].vc = vc,
          ![c].pc = IF vc # None /\ conns[vc].ch = calls[c].ch THEN "ok"
                    ELSE IF vc # None THEN "disconnect" ELSE "join"]
  /\ UNCHANGED << voiceConn, conns >>
  /\ ConnectFrame

\* lines 65-67: vc.Disconnect() on the connection read before; p.voice is
\* not written.
ConnectDisconnect(c) ==
  /\ calls[c].pc = "disconnect"
  /\ conns' = Disconnected(conns, calls[c].vc)
  /\ calls' = [calls EXCEPT ![c].pc = "join"]
  /\ UNCHANGED voiceConn
  /\ ConnectFrame

\* lines 69-72: ChannelVoiceJoin fails and EnsureConnected returns the
\* error, or it hands back a connection to the channel: a new one, or (the
\* session keeps the connections, the player does not see which) a live one
\* of the guild moved to the channel.
ConnectJoin(c) ==
  /\ calls[c].pc = "join"
  /\ \/ /\ Len(conns) < MaxJoins
        /\ conns' = Append(conns, [ch |-> calls[c].ch, live |-> TRUE])
        /\ calls' = [calls EXCEPT ![c].conn = Len(conns) + 1, ![c].pc = "set"]
     \/ \E i \in 1..Len(conns) :
          /\ conns[i].live
          /\ conns' = [conns EXCEPT ![i].ch = calls[c].ch]
          /\ calls' = [calls EXCEPT ![c].conn = i, ![c].pc = "set"]
     \/ /\ calls' = [calls EXCEPT ![c].pc = "failed"]
        /\ UNCHANGED conns
  /\ UNCHANGED voiceConn
  /\ ConnectFrame

\* lines 74-79: p.voice = conn under the lock; return nil.
ConnectSet(c) ==
  /\ calls[c].pc = "set"
  /\ voiceConn' = calls[c].conn
  /\ calls' = [calls EXCEPT ![c].pc = "ok"]
  /\ UNCHANGED conns
  /\ ConnectFrame

ConnectNext ==
  \/ \E c \in Callers, ch \in VoiceChannels : ConnectCall(c, ch)
  \/ \E c \in Callers : ConnectRead(c)
  \/ \E c \in Callers : ConnectDisconnect(c)
  \/ \E c \in Callers : ConnectJoin(c)
  \/ \E c \in Callers : ConnectSet(c)

ConnectSpec == Init /\ [][ConnectNext]_vars

\* ---- properties -------------------------------------------------------

Last(sq) == sq[Len(sq)]

\* C1: with loop off and no Skip or Stop, tracks become current in exactly
\* the order of their Enqueue calls (track ids are handed out in call order),
\* and the first track enqueued is the first to become current.
FifoOrder ==
  plain => \A i \in 1..Len(became) : became[i] = i

FifoOrderWitness ==
  plain /\ became = << 1, 2 >>

\* C2 as stated: the position Enqueue returns counts a track that is already
\* playing, so a track enqueued behind n waiting tracks while another one is
\* current gets position n + 2.
EnqueueCountsCurrent ==
  last.op = "Enqueue" =>
    last.pos = ahead + 1 + (IF last.aux THEN 1 ELSE 0)

\* C2 amended: the position Enqueue returns is the new track's 1-based index
\* in the waiting queue and does not count the current track: behind n
\* waiting tracks it is n + 1, whether or not a track is current.
EnqueueReturnsQueueIndex ==
  last.op = "Enqueue" => last.pos = ahead + 1

EnqueueReturnsQueueIndexWitness ==
  last.op = "Enqueue" /\ last.cur = 2 /\ last.aux /\ last.pos = 1

\* C3: an accepted track always has a playback task that will dequeue it:
\* with no Stop (or Skip, ToggleLoop) ever called, a non-empty queue never
\* sits on a player whose playback task has ended.
EnqueueNeverLost ==
  (plain /\ queue # << >>) => pc # "none"

\* C4: when Skip returned true, the track that was current does not go on
\* through a pipeline invocation that was not cancelled.
SkipTrueCancels ==
  (last.op = "Skip" /\ last.val /\ current = last.cur /\ pc \in StreamPcs)
    => ctxDone

\* C5: Stop leaves queue empty, current absent, loop and paused false, and
\* returns true exactly when a track was current or the queue was non-empty.
StopLeavesIdle ==
  [][Stop => /\ queue' = << >> /\ current' = None /\ ~loop' /\ ~paused'
             /\ last'.op = "Stop"
             /\ last'.val = (current # None \/ queue # << >>)]_vars

StopLeavesIdleWitness ==
  /\ last.op = "Stop" /\ last.val
  /\ pc \in LoopPcs /\ ctxDone
  /\ queue = << >> /\ current = None

\* C6: while Stop is the last command given, no pipeline invocation runs
\* for the player except one whose cancellation has been requested.
StopHaltsPlayback ==
  last.op = "Stop" => ~(pc \in StreamPcs /\ ~ctxDone)

\* C7: Pause is never stuck in its channel send with the lock held while the
\* pipeline is outside the select that receives from the pause channel (the
\* pipeline needs the lock to get back to that select).
PauseNeverStuck ==
  ~(mu = "Pause" /\ pc # "s_select")

PausedReadsNothing ==
  ~(pc = "s_send" /\ isPaused /\ paused)

\* C10: when nextTrack runs after a normal completion with loop on and a
\* current track, that track is appended to the tail exactly once before the
\* head is dequeued (so with an empty queue it is current again), and loop
\* stays true.
LoopRequeuesOnce ==
  [][(pc = "next" /\ pc' # "next" /\ err = "nil" /\ loop /\ current # None)
       => /\ << current' >> \o queue' = Append(queue, current)
          /\ loop']_vars

LoopRequeuesOnceWitness ==
  /\ pc = "install" /\ err = "nil" /\ loop
  /\ enqueued = 1 /\ current = 1 /\ queue = << >>

\* C11: ToggleLoop with an explicit value v sets loop to (v and a track is
\* current); with no argument it flips loop when a track is current and leaves
\* it alone otherwise; it returns the resulting loop; with no current track
\* the returned value is false.
ToggleLoopContract ==
  [][\A e \in {"nil", "true", "false"} :
       ToggleLoop(e) =>
         /\ e = "true" => (loop' <=> current # None)
         /\ e = "false" => ~loop'
         /\ e = "nil" => (loop' <=> IF current # None THEN ~loop ELSE loop)
         /\ last'.val = loop'
         /\ current = None => ~last'.val]_vars

ToggleLoopContractWitness ==
  last.op = "ToggleLoop" /\ last.val /\ loop /\ current # None

\* C12: on an idle player (no current track, no playback task) Skip and Pause
\* return false and leave queue, current, loop, paused, the transport handle
\* and the idle timer as they were.
IdleSkipPauseNoOp ==
  [][(current = None /\ pc = "none" /\ (Skip \/ Pause)) =>
       /\ last'.op \in {"Skip", "Pause"} /\ ~last'.val
       /\ UNCHANGED << queue, current, loop, paused, voice, disconnectTimer >>]_vars

IdleSkipPauseNoOpWitness ==
  /\ last.op = "Pause" /\ ~last.val
  /\ current = None /\ pc = "none" /\ ~paused

\* C13: when the idle timer the player went Idle with fires, no Enqueue having
\* cancelled it, its callback leaves the transport handle absent and the
\* registry without an entry for the guild.
IdleTimerReleases ==
  [][(disconnectTimer = "fired" /\ TimerCallback) =>
       /\ voice' = "nil" /\ disconnectTimer' = "nil"
       /\ players'[Guild] = None]_vars

IdleTimerReleasesWitness ==
  /\ players[Guild] = None /\ voice = "nil" /\ disconnectTimer = "nil"
  /\ pc = "none" /\ current = None /\ enqueued > 0

\* C14: an Enqueue that finds the idle timer armed cancels it: the timer
\* becomes absent without turning into a pending callback or a timer that
\* can still fire, and the transport and the registry entry stay.
EnqueueCancelsTimer ==
  [][(disconnectTimer = "armed" /\ Enqueue) =>
       /\ disconnectTimer' = "nil"
       /\ UNCHANGED << cbPending, orphanTimers, voice, players >>]_vars

EnqueueCancelsTimerWitness ==
  /\ last.op = "Enqueue" /\ disconnectTimer = "nil" /\ voice # "nil"
  /\ players[Guild] = Self /\ cbPending = 0 /\ orphanTimers = 0
  /\ enqueued = 2 /\ current = None /\ queue = << 2 >> /\ pc = "next"

\* C15: at most one playback task exists; playing is true exactly while it
\* exists; a pipeline invocation runs only inside that one task, so a new one
\* starts only after the previous one has returned.
SinglePlaybackTask ==
  /\ tasks <= 1
  /\ playing <=> tasks = 1
  /\ pc # "none" <=> tasks = 1
  /\ (pc \in StreamPcs \/ ffmpeg > 0) => tasks = 1

SinglePlaybackTaskWitness ==
  /\ last.op = "Enqueue" /\ enqueued = 2 /\ current = 1
  /\ pc \in StreamPcs /\ tasks = 1 /\ playing

\* C16: getPlayer is create-if-absent.  The registry never maps two guilds to
\* one Player and holds for a guild only a Player that was constructed; a
\* getPlayer call on a guild that has a Player returns it and constructs
\* nothing, so two calls with no release between them return the same
\* instance; on a guild without one it stores a fresh Player and returns it.
RegistryCreateIfAbsent ==
  [][/\ \A g, h \in Guilds :
          (g # h /\ players'[g] # None) => players'[g] # players'[h]
     /\ \A g \in Guilds : players'[g] \in {None} \cup (1..created')
     /\ \A g \in Guilds :
          GetPlayer(g) =>
            /\ lastGot'[g] = players'[g] /\ lastGot'[g] # None
            /\ lastGot[g] # None => lastGot'[g] = lastGot[g]
            /\ players[g] # None => (players' = players /\ created' = created)
            /\ players[g] = None =>
                 (players'[g] = created' /\ created' = created + 1)]_vars

RegistryCreateIfAbsentWitness ==
  /\ players[Guild] = Self + 2 /\ lastGot[Guild] = Self + 2
  /\ lastFound[Guild] = Self + 2 /\ created = MaxInstances
  /\ players["g2"] = MaxInstances

\* C17: nothing the player of one guild does (a command, a pipeline outcome,
\* a failure, the idle timer's callback) changes the fields of another
\* guild's player or that guild's registry entry.
GuildsIndependent ==
  [][/\ peer' = peer
     /\ \A g \in Guilds \ {Guild} : players'[g] = players[g]]_vars

GuildsIndependentWitness ==
  /\ players[Guild] = None /\ err = "failed" /\ voice = "nil"
  /\ \A g \in Guilds \ {Guild} : players[g] = Self + 1
  /\ peer = NewPlayer

\* C18: Shutdown leaves the transport handle absent and forces the player to
\* Idle: after Shutdown, with no join in flight and as long as no further
\* command is called, eventually no track is current and no playback task is
\* active.
NoFurtherCommand == last.op = "Shutdown" /\ ecPc = "none" /\ voice = "nil"

ShutdownForcesIdle ==
  [](NoFurtherCommand => <>(~NoFurtherCommand \/ (current = None /\ pc = "none")))

\* C19: a failed or cancelled pipeline is contained by the playback task: the
\* task does not end while the queue holds a track.
FailuresContained ==
  ~(err \in {"failed", "canceled"} /\ queue # << >> /\ pc = "none")

\* C20: a pipeline invocation that launched a decode subprocess has killed
\* and reaped it when it returns, whatever the outcome: a subprocess is alive
\* only inside the frame loop of the running invocation, and never more than
\* one.
SubprocessReaped ==
  /\ ffmpeg <= 1
  /\ ffmpeg > 0 => pc \in LoopPcs

SubprocessReapedWitness ==
  pc = "clear" /\ err = "nil" /\ ffmpeg = 0 /\ ~speaking /\ current # None

\* C21: a play request whose join or whose resolution fails enqueues nothing:
\* no step of such a request changes the queue, the current track, the loop
\* flag or the paused flag.
FailedRequestStep ==
  \/ \E ch \in Channels : EnsureConnectedRead(ch)
  \/ EnsureConnectedJoin
  \/ EnsureConnectedSet
  \/ ResolveFail

FailedRequestEnqueuesNothing ==
  [][FailedRequestStep =>
       UNCHANGED << queue, current, loop, paused, playing, enqueued >>]_vars

\* The transport was joined and the one request so far is over with nothing
\* enqueued: its resolution failed.
FailedRequestEnqueuesNothingWitness ==
  /\ voice # "nil" /\ ready = 0 /\ ecPc = "none" /\ enqueued = 0
  /\ queue = << >> /\ current = None /\ pc = "none"

\* C22: in every state in which no request, command or callback is under way,
\* the idle timer is pending exactly when playing is false and a transport
\* handle is held.
Quiescent ==
  ready = 0 /\ ecPc = "none" /\ mu = "free" /\ cbPending = 0 /\ orphanTimers = 0

TimerArmedIffIdleWithTransport ==
  Quiescent => (disconnectTimer = "armed" <=> (~playing /\ voice # "nil"))

\* C23: a pipeline invocation that is streaming and has not been cancelled
\* has its track as the current track.
StreamingHasCurrent ==
  ~(pc \in LoopPcs /\ ~ctxDone /\ current = None)

\* C24: the timer callback of this Player removes only this Player from the
\* registry: when the guild is already mapped to a replacement, the
\* replacement stays registered.
EvictionSparesReplacement ==
  [][TimerCallback =>
       (players[Guild] # Self => players'[Guild] = players[Guild])]_vars

\* C25: once the timer callback has removed this Player from the registry,
\* no Enqueue acts on it any more.
NoEnqueueOnEvicted ==
  [][Enqueue => players[Guild] = Self]_vars

\* C26: the timer callback never releases the transport or evicts the player
\* after an Enqueue has set playing to true.
CallbackNeverHitsPlaying ==
  [][TimerCallback => ~playing]_vars

\* Track t is in queue q.
Holds(q, t) == \E i \in 1..Len(q) : q[i] = t

\* C27: a track whose pipeline was cancelled by a Skip is not put back into
\* the queue by the loop handling of the next nextTrack, whatever commands ran
\* in between.
SkippedNotRequeued ==
  [][(NextTrack /\ skipped /\ err = "canceled" /\ current # None) =>
       (current' # current /\ ~Holds(queue', current))]_vars

\* C28: a track whose pipeline invocation ended as failed is not put back
\* into the queue by nextTrack, even with loop on.
FailedNotRequeued ==
  [][(NextTrack /\ err = "failed" /\ current # None) =>
       (current' # current /\ ~Holds(queue', current))]_vars

\* C29: once the cancellation handle of a streaming pipeline invocation has
\* been invoked, the invocation returns the cancelled outcome.
CancelReturnsCanceled ==
  [][(pc \in LoopPcs /\ ctxDone /\ pc' = "clear") => err' = "canceled"]_vars

\* C30: Pause and resume act on the running pipeline invocation.  A Pause
\* call (its blocked send included) starts no invocation and no subprocess
\* and moves neither the read position nor what was delivered; and the frames
\* an invocation has delivered are the source's frames 1, 2, ... in order,
\* each once, the frame read last being the next to deliver (frames are
\* recorded while no Skip, Stop or ToggleLoop was called).
PauseKeepsInvocation ==
  [][/\ (Pause \/ PauseSend) =>
          UNCHANGED << pc, ffmpeg, tasks, cancelPlayback, framePos, delivered >>
     /\ plain' =>
          /\ \A i \in 1..Len(delivered') : delivered'[i] = i
          /\ framePos' = Len(delivered')
                + (IF pc' = "s_send" /\ Len(delivered') < MaxFrames THEN 1 ELSE 0)]_vars

PauseKeepsInvocationWitness ==
  /\ plain /\ enqueued = 1 /\ current = 1 /\ pc \in LoopPcs /\ ffmpeg = 1
  /\ delivered = << 1, 2 >>
  /\ last.op = "Pause" /\ ~last.val /\ Len(pauseRets) >= 2 /\ ~paused

\* C31: when from some point on no Enqueue and no ToggleLoop is called, loop
\* is false, and every pipeline invocation returns, the playback task ends:
\* it drains the queue and goes Idle for good; and the step in which it goes
\* Idle sets playing to false, with no current track, and arms the idle timer.
DrainedTaskTerminates ==
  /\ [][GoIdle => (~playing' /\ current' = None /\ disconnectTimer' = "armed")]_vars
  /\ (/\ <>[][~Enqueue /\ ~(\E e \in {"nil", "true", "false"} : ToggleLoop(e))]_vars
      /\ <>[](~loop)
      /\ []<>(pc \notin StreamPcs))
       => <>[](pc = "none")

\* C32: the playback task installs a cancellation handle only when none is
\* installed, the context behind it is new (not done, the pause channel new
\* and empty) even when the previous one was cancelled, and whenever playing
\* is false neither a handle nor a pause channel is present.
HandleFreshAndScoped ==
  [][/\ InstallCancel => /\ ~cancelPlayback /\ ~pauseChan
                          /\ cancelPlayback' /\ pauseChan'
                          /\ ~ctxDone' /\ pauseBuf' = << >>
     /\ ~playing' => (~cancelPlayback' /\ ~pauseChan')]_vars

\* A second invocation runs on a context that is not done although the Skip
\* before it cancelled the handle of the first.
HandleFreshAndScopedWitness ==
  /\ pc = "s_voice" /\ cancelPlayback /\ ~ctxDone
  /\ last.op = "Skip" /\ last.aux /\ last.cur # None /\ current # last.cur

\* C33: the loop flag changes only in ToggleLoop, Skip and Stop: Enqueue,
\* Pause, the steps of a play request, Shutdown, the idle timer and every
\* step of the playback task leave it as it was.
LoopWriter ==
  \/ Skip
  \/ Stop
  \/ \E e \in {"nil", "true", "false"} : ToggleLoop(e)

LoopBystander ==
  \/ Enqueue \/ Pause \/ PauseSend \/ Shutdown
  \/ FailedRequestStep
  \/ TimerExpire \/ OrphanExpire \/ TimerCallback
  \/ TaskStep

LoopChangesOnlyByCommand ==
  [][/\ loop' # loop => LoopWriter
     /\ LoopBystander => loop' = loop]_vars

\* Looping is still on after a Shutdown and a further step of the task.
LoopChangesOnlyByCommandWitness ==
  loop /\ last.op = "Shutdown" /\ pc = "next" /\ err = "failed"

\* C34: a track is in at most one slot: never twice in the queue, never both
\* current and queued; and nextTrack neither creates nor loses a track: the
\* new current track and the new queue together hold exactly the tracks of
\* the old queue, plus the old current track when it is looped.
Slots(q, cur) == {q[i] : i \in 1..Len(q)} \cup (IF cur = None THEN {} ELSE {cur})

SlotCount(q, cur) == Len(q) + (IF cur = None THEN 0 ELSE 1)

OneSlotPerTrack ==
  [][/\ Cardinality(Slots(queue', current')) = SlotCount(queue', current')
     /\ NextTrack =>
          LET back == IF loop THEN current ELSE None
          IN /\ Slots(queue', current') = Slots(queue, back)
             /\ SlotCount(queue', current') = SlotCount(queue, back)]_vars

\* The looped first track went back behind the second, which is now current.
OneSlotPerTrackWitness ==
  /\ pc = "install" /\ err = "nil" /\ loop
  /\ current = 2 /\ queue = << 1 >>

LoopImpliesCurrent == loop => current # None

\* Looping is on while the task is between two tracks, another one waiting.
LoopImpliesCurrentWitness ==
  loop /\ current # None /\ pc = "next" /\ queue # << >>

\* C37: in every reachable state in which playing is false the queue is
\* empty.
IdleQueueEmpty == ~playing => queue = << >>

\* C40: in every reachable state in which playing is false, paused is false.
IdleNotPaused == ~playing => ~paused

\* The task went Idle after a Pause call had set paused.
IdleNotPausedWitness ==
  ~playing /\ ~paused /\ pc = "none" /\ last.op = "Pause" /\ last.val

\* C39: Skip leaves paused as it is and so does the playback task between
\* tracks; when the last command was a Skip and paused is true, a track other
\* than the skipped one that has become current neither reads nor delivers a
\* frame: it stays that way until another command (Pause) is called.
PausedSurvivesSkip ==
  [][/\ Skip => paused' = paused
     /\ (TaskStep /\ ~GoIdle) => paused' = paused
     /\ (last'.op = "Skip" /\ paused' /\ current' \notin {None, last'.cur})
          => pc' \notin {"s_read", "s_send"}]_vars

\* The track behind the skipped one is current and its pipeline sits in the
\* select of a paused pipeline.
PausedSurvivesSkipWitness ==
  /\ last.op = "Skip" /\ last.aux /\ last.cur = 1
  /\ paused /\ current = 2 /\ pc = "s_select" /\ pauseBuf = << >>

\* C38: an EnsureConnected(ch) call that returns success leaves p.voice a
\* live connection to ch; and once every call has returned, p.voice is not a
\* released connection and no live connection exists that p.voice does not
\* point to.
BoundLive(ch) ==
  voiceConn # None /\ conns[voiceConn].live /\ conns[voiceConn].ch = ch

NoneInFlight == \A c \in Callers : Returned(c)

EnsureConnectedBindsLive ==
  [][/\ \A c \in Callers :
          (calls[c].pc # "ok" /\ calls'[c].pc = "ok") => BoundLive(calls[c].ch)'
     /\ NoneInFlight' =>
          /\ voiceConn' # None => conns'[voiceConn'].live
          /\ \A i \in 1..Len(conns') : conns'[i].live => i = voiceConn']_vars
====
